---- MODULE Spec2Model ----
(***************************************************************************)
(* A model of utils/py-file-analyzer/main.py: the syntax-tree visitor      *)
(* (ComplexityAnalyzer), analyze_file, collect_python_files, the bucket    *)
(* calculation and main.                                                   *)
(*                                                                         *)
(* A syntax tree is a sequence of nodes in source (pre-)order; node i      *)
(* names its parent (0 is the Module node), so the children of a node are  *)
(* visited in index order, as NodeVisitor.generic_visit does.              *)
(***************************************************************************)
EXTENDS Integers, Sequences, FiniteSets, TLC

VARIABLES
    \* analyze_file: the file analyzed, the position in the call, the
    \* ComplexityAnalyzer and the FileAnalysis returned
    file, pc, visitor, result,
    \* _calculate_function_buckets: its argument and the dict it returns
    func_list, buckets,
    \* the directory tree scanned, and what the calls of collect_python_files
    \* with exclude_tests = True and = False have returned
    fs, returned,
    \* main: the parsed arguments, the list of analyses, the two output
    \* streams and the exit code of the process
    \* (raised is the exception on its way to the handler of main, index the
    \* loop variable i)
    args, analyses, raised, index, stdout, stderr, exit_code

analyzeVars == <<file, pc, visitor, result>>
analyzeVarsButPc == <<file, visitor, result>>
bucketVars == <<func_list, buckets>>
collectVars == <<fs, returned>>
mainVars == <<args, analyses, raised, index, stdout, stderr, exit_code>>

vars == <<analyzeVars, bucketVars, collectVars, mainVars>>

(***************************************************************************)
(* Bounds of the model.                                                    *)
(***************************************************************************)
\* the largest number of nodes below Module in a parsed tree
MaxNodes == 3
\* the largest line number of a node in the hand-built trees of SpecSpan
MaxLine == 3
\* the largest number of functions handed to _calculate_function_buckets
MaxFunctions == 3
\* the largest number of files in one directory
MaxFiles == 2
\* the largest value of the -n argument
MaxShown == 2
\* the largest absolute value of the -topfuncs argument
MaxTopFuncs == 3

(***************************************************************************)
(* Python values.                                                          *)
(***************************************************************************)
\* Python's None (FunctionInfo.class_name: Optional[str] = None)
None == "None"

Max(a, b) == IF a >= b THEN a ELSE b
Min(a, b) == IF a <= b THEN a ELSE b

Last(s) == s[Len(s)]
Front(s) == SubSeq(s, 1, Len(s) - 1)

\* str.startswith / str.endswith on strings kept as sequences of characters
StartsWith(s, p) == Len(p) <= Len(s) /\ SubSeq(s, 1, Len(p)) = p
EndsWith(s, p) == Len(p) <= Len(s) /\ SubSeq(s, Len(s) - Len(p) + 1, Len(s)) = p

(***************************************************************************)
(* Syntax trees.  A node is                                                *)
(*   [kind, name, module, alias, parent, lineno, end_lineno]               *)
(* where name is the name of a class or function, and module and alias are *)
(* the module and the imported name of an import statement (one alias a    *)
(* statement), kept as sequences of characters.                            *)
(* lineno = 0 stands for a node without the lineno attribute, and          *)
(* end_lineno = 0 for one whose end_lineno is missing, None or 0: the code *)
(* tests both with hasattr(...) and truthiness, which 0 fails alike.       *)
(***************************************************************************)
FunctionKinds == {"FunctionDef", "AsyncFunctionDef"}
LeafKinds == {"Import", "ImportFrom"}

Children(tree, i) == {j \in 1..Len(tree) : tree[j].parent = i}

RECURSIVE Ancestors(_, _)
Ancestors(tree, j) ==
    IF j = 0 \/ tree[j].parent = 0 THEN {}
    ELSE {tree[j].parent} \cup Ancestors(tree, tree[j].parent)

Descendants(tree, i) == {j \in 1..Len(tree) : i \in Ancestors(tree, j)}

\* ast.walk(n): n itself and every descendant
Walk(tree, i) == {i} \cup Descendants(tree, i)

RECURSIVE SetMax(_)
SetMax(S) ==
    IF S = {} THEN 0
    ELSE LET x == CHOOSE x \in S : TRUE IN Max(x, SetMax(S \ {x}))

(***************************************************************************)
(* ComplexityAnalyzer.  The visitor state is the analyzer's fields         *)
(* (functions, classes, imports, class_stack) and the position of the      *)
(* traversal: pos, the next node in source order, and frames, the nodes    *)
(* whose visit method is waiting for generic_visit to return.  spans keeps *)
(* the locals start_line and end_line of each _process_function call.      *)
(***************************************************************************)
NewAnalyzer ==
    [pos |-> 1, frames |-> <<>>, class_stack |-> <<>>, classes |-> <<>>,
     functions |-> <<>>, imports |-> <<>>, spans |-> <<>>]

CurrentFrame(v) == IF v.frames = <<>> THEN 0 ELSE Last(v.frames)

\* generic_visit of the current frame has a next child to visit
HasNextChild(tree, v) ==
    v.pos <= Len(tree) /\ tree[v.pos].parent = CurrentFrame(v)

VisitDone(tree, v) == v.pos > Len(tree) /\ v.frames = <<>>

\* the largest lineno / end_lineno over ast.walk(n)
WalkMax(tree, n) ==
    SetMax({tree[j].lineno : j \in Walk(tree, n)}
           \cup {tree[j].end_lineno : j \in Walk(tree, n)})

\* a slip: only the direct children of n are looked at, not the whole subtree
find_last_node_children(tree, n) ==
    IF tree[n].end_lineno # 0
    THEN Max(tree[n].lineno, tree[n].end_lineno)
    ELSE Max(tree[n].lineno,
             SetMax({tree[j].lineno : j \in Children(tree, n)}
                    \cup {tree[j].end_lineno : j \in Children(tree, n)}))

find_last_node(tree, n) ==
    LET last == tree[n].lineno
    IN  IF tree[n].end_lineno # 0
        THEN Max(last, tree[n].end_lineno)
        ELSE Max(last, WalkMax(tree, n))

\* a slip: the reported end is trusted as it is, with no max and no clamp
find_function_end_trusting(tree, n) ==
    IF tree[n].end_lineno # 0 THEN tree[n].end_lineno
    ELSE WalkMax(tree, n)

find_function_end(tree, n) ==
    LET end == find_last_node(tree, n)
    IN  IF end < tree[n].lineno THEN tree[n].lineno ELSE end

process_function(tree, v, is_async) ==
    LET n == v.pos
        start_line == tree[n].lineno
        end_line == find_function_end(tree, n)
        lines == end_line - start_line + 1
        statements == Cardinality(Children(tree, n))
        is_method == v.class_stack # <<>>
        class_name == IF v.class_stack # <<>> THEN Last(v.class_stack) ELSE None
        func_info == [name |-> tree[n].name, lines |-> lines,
                      statements |-> statements, is_async |-> is_async,
                      is_method |-> is_method, class_name |-> class_name]
    IN  [v EXCEPT !.functions = Append(@, func_info),
                  !.spans = Append(@, [node |-> n, start_line |-> start_line,
                                       end_line |-> end_line]),
                  !.frames = Append(@, n),
                  !.pos = n + 1]

visit_ClassDef(tree, v) ==
    [v EXCEPT !.classes = Append(@, tree[v.pos].name),
              !.class_stack = Append(@, tree[v.pos].name),
              !.frames = Append(@, v.pos),
              !.pos = v.pos + 1]

\* a slip: the class name is left on class_stack when the class is left
leave_ClassDef_keeping_name(tree, v) == [v EXCEPT !.frames = Front(@)]

\* generic_visit(node) has returned inside visit_ClassDef: class_stack.pop()
leave_ClassDef(tree, v) ==
    [v EXCEPT !.class_stack = Front(@), !.frames = Front(@)]

visit_Import(tree, v) ==
    [v EXCEPT !.imports = Append(@, tree[v.pos].alias), !.pos = v.pos + 1]

visit_ImportFrom(tree, v) ==
    LET module == tree[v.pos].module
    IN  [v EXCEPT !.imports =
                      IF module # <<>>
                      THEN Append(@, module \o <<".">> \o tree[v.pos].alias)
                      ELSE Append(@, tree[v.pos].alias),
                  !.pos = v.pos + 1]

\* a node kind with no visit_ method: NodeVisitor.generic_visit
generic_visit(tree, v) ==
    [v EXCEPT !.frames = Append(@, v.pos), !.pos = v.pos + 1]

\* generic_visit has run out of children in a frame that is no ClassDef
return_from_visit(tree, v) == [v EXCEPT !.frames = Front(@)]

\* one step of analyzer.visit(tree)
VisitStep(tree, v) ==
    IF HasNextChild(tree, v)
    THEN CASE tree[v.pos].kind = "ClassDef" -> visit_ClassDef(tree, v)
           [] tree[v.pos].kind = "FunctionDef" -> process_function(tree, v, FALSE)
           [] tree[v.pos].kind = "AsyncFunctionDef" -> process_function(tree, v, TRUE)
           [] tree[v.pos].kind = "Import" -> visit_Import(tree, v)
           [] tree[v.pos].kind = "ImportFrom" -> visit_ImportFrom(tree, v)
           [] OTHER -> generic_visit(tree, v)
    ELSE IF tree[CurrentFrame(v)].kind = "ClassDef"
         THEN leave_ClassDef(tree, v)
         ELSE return_from_visit(tree, v)

\* analyzer.visit(tree), run to its end
RECURSIVE RunVisitor(_, _)
RunVisitor(tree, v) ==
    IF VisitDone(tree, v) THEN v ELSE RunVisitor(tree, VisitStep(tree, v))

(***************************************************************************)
(* analyze_file: the metrics and the notes.                                *)
(***************************************************************************)
ManyClassesLimit == 3
LongLines == 50
VeryLongLines == 100
HighStatements == 20
MixedAsyncLimit == 5

web_imports == {<<"f", "l", "a", "s", "k">>,
                <<"d", "j", "a", "n", "g", "o">>,
                <<"f", "a", "s", "t", "a", "p", "i">>,
                <<"t", "o", "r", "n", "a", "d", "o">>,
                <<"a", "i", "o", "h", "t", "t", "p">>,
                <<"r", "e", "q", "u", "e", "s", "t", "s">>,
                <<"h", "t", "t", "p", "x">>}
db_imports == {<<"s", "q", "l", "a", "l", "c", "h", "e", "m", "y">>,
               <<"p", "s", "y", "c", "o", "p", "g", "2">>,
               <<"p", "y", "m", "o", "n", "g", "o">>,
               <<"s", "q", "l", "i", "t", "e", "3">>,
               <<"r", "e", "d", "i", "s">>,
               <<"a", "s", "y", "n", "c", "p", "g">>}

RECURSIVE SumValues(_)
SumValues(f) ==
    IF DOMAIN f = {} THEN 0
    ELSE LET k == CHOOSE k \in DOMAIN f : TRUE
         IN  f[k] + SumValues([x \in DOMAIN f \ {k} |-> f[x]])

\* Python's dict: a function whose domain is the set of keys
EmptyDict == <<>>

DictGet(d, k, default) == IF k \in DOMAIN d THEN d[k] ELSE default

DictSet(d, k, x) == [c \in DOMAIN d \cup {k} |-> IF c = k THEN x ELSE d[c]]

\* a slip: the count of a class is set to 1 instead of incremented
count_function_reset(acc, func) ==
    IF func.is_method /\ func.class_name # None
    THEN [acc EXCEPT !.method_counts = DictSet(@, func.class_name, 1)]
    ELSE IF ~func.is_method
         THEN [acc EXCEPT !.top_level_functions = @ + 1]
         ELSE acc

\* the body of the loop over analyzer.functions
count_function(acc, func) ==
    IF func.is_method /\ func.class_name # None
    THEN [acc EXCEPT !.method_counts =
                         DictSet(@, func.class_name, DictGet(@, func.class_name, 0) + 1)]
    ELSE IF ~func.is_method
         THEN [acc EXCEPT !.top_level_functions = @ + 1]
         ELSE acc

RECURSIVE count_functions(_, _, _)
count_functions(functions, i, acc) ==
    IF i > Len(functions) THEN acc
    ELSE count_functions(functions, i + 1, count_function(acc, functions[i]))

method_counts_of(functions) ==
    count_functions(functions, 1,
        [method_counts |-> EmptyDict, top_level_functions |-> 0]).method_counts

top_level_functions_of(functions) ==
    count_functions(functions, 1,
        [method_counts |-> EmptyDict, top_level_functions |-> 0]).top_level_functions

\* a slip: the two long-function notes are tested one after the other, with
\* "if" in the place of "elif"
notes_of_with_both(classes, functions, imports) ==
    LET long_funcs ==
            Cardinality({i \in 1..Len(functions) : functions[i].lines > LongLines})
        very_long_funcs ==
            Cardinality({i \in 1..Len(functions) : functions[i].lines > VeryLongLines})
    IN  (IF very_long_funcs > 0
         THEN <<[note |-> "Very long functions", count |-> very_long_funcs]>>
         ELSE <<>>)
        \o (IF long_funcs > 0
            THEN <<[note |-> "Long functions", count |-> long_funcs]>> ELSE <<>>)

notes_of(classes, functions, imports) ==
    LET long_funcs ==
            Cardinality({i \in 1..Len(functions) : functions[i].lines > LongLines})
        very_long_funcs ==
            Cardinality({i \in 1..Len(functions) : functions[i].lines > VeryLongLines})
        high_stmt_funcs ==
            Cardinality({i \in 1..Len(functions) :
                            functions[i].statements > HighStatements})
        has_async == \E i \in 1..Len(functions) : functions[i].is_async
        has_sync == \E i \in 1..Len(functions) : ~functions[i].is_async
        has_web == \E i \in 1..Len(imports) : \E w \in web_imports : StartsWith(imports[i], w)
        has_db == \E i \in 1..Len(imports) : \E d \in db_imports : StartsWith(imports[i], d)
    IN  (IF Len(classes) > ManyClassesLimit
         THEN <<[note |-> "Many classes in file", count |-> Len(classes)]>> ELSE <<>>)
        \o (IF very_long_funcs > 0
            THEN <<[note |-> "Very long functions", count |-> very_long_funcs]>>
            ELSE IF long_funcs > 0
                 THEN <<[note |-> "Long functions", count |-> long_funcs]>>
                 ELSE <<>>)
        \o (IF high_stmt_funcs > 0
            THEN <<[note |-> "Complex functions", count |-> high_stmt_funcs]>> ELSE <<>>)
        \o (IF has_async /\ has_sync /\ Len(functions) > MixedAsyncLimit
            THEN <<[note |-> "Mixed async/sync patterns", count |-> 0]>> ELSE <<>>)
        \o (IF has_web /\ has_db
            THEN <<[note |-> "Mixed web and database concerns", count |-> 0]>> ELSE <<>>)

\* a slip: every failure record reports zero lines
FailureAnalysis_zero_lines(path, lines, note) ==
    [path |-> path, lines |-> 0, classes |-> <<>>, functions |-> <<>>,
     imports |-> <<>>, method_counts |-> EmptyDict, top_level_functions |-> 0,
     notes |-> <<[note |-> note, count |-> 0]>>]

\* the record analyze_file returns when reading or parsing failed
FailureAnalysis(path, lines, note) ==
    [path |-> path, lines |-> lines, classes |-> <<>>, functions |-> <<>>,
     imports |-> <<>>, method_counts |-> EmptyDict, top_level_functions |-> 0,
     notes |-> <<[note |-> note, count |-> 0]>>]

\* the record analyze_file returns after a completed traversal
SuccessAnalysis(path, lines, v) ==
    [path |-> path, lines |-> lines, classes |-> v.classes,
     functions |-> v.functions, imports |-> v.imports,
     method_counts |-> method_counts_of(v.functions),
     top_level_functions |-> top_level_functions_of(v.functions),
     notes |-> notes_of(v.classes, v.functions, v.imports)]

(***************************************************************************)
(* _calculate_function_buckets.                                            *)
(***************************************************************************)
NoBuckets == [over100 |-> -1]

ZeroBuckets ==
    [over100 |-> 0, between50_100 |-> 0, between20_49 |-> 0, under20 |-> 0]

\* a slip: the first comparison is >= 100, so a function of exactly 100
\* lines is taken for a very long one
bucket_function_from_100(b, func) ==
    IF func.lines >= 100 THEN [b EXCEPT !.over100 = @ + 1]
    ELSE IF func.lines >= 50 THEN [b EXCEPT !.between50_100 = @ + 1]
    ELSE IF func.lines >= 20 THEN [b EXCEPT !.between20_49 = @ + 1]
    ELSE [b EXCEPT !.under20 = @ + 1]

\* the body of the loop over functions
bucket_function(b, func) ==
    IF func.lines > 100 THEN [b EXCEPT !.over100 = @ + 1]
    ELSE IF func.lines >= 50 THEN [b EXCEPT !.between50_100 = @ + 1]
    ELSE IF func.lines >= 20 THEN [b EXCEPT !.between20_49 = @ + 1]
    ELSE [b EXCEPT !.under20 = @ + 1]

RECURSIVE bucket_functions(_, _, _)
bucket_functions(funcs, i, b) ==
    IF i > Len(funcs) THEN b
    ELSE bucket_functions(funcs, i + 1, bucket_function(b, funcs[i]))

calculate_function_buckets(funcs) == bucket_functions(funcs, 1, ZeroBuckets)

(***************************************************************************)
(* Files.  The content of a file is what the program can observe of it:    *)
(*   first   the outcome of the open/readlines in count_file_lines         *)
(*   nlines  the number of lines readlines returns                         *)
(*   second  the outcome of the second open/read in analyze_file           *)
(*   parse   the outcome of ast.parse and analyzer.visit: a tree, a        *)
(*           SyntaxError, or another exception (a RecursionError on a      *)
(*           deeply nested expression)                                     *)
(*   tree    the syntax tree when parse is "ok"                            *)
(***************************************************************************)
Str_py == <<".", "p", "y">>
Str_redis == <<"r", "e", "d", "i", "s">>
Str_flask == <<"f", "l", "a", "s", "k">>
Str_F == <<"F">>

NodeChoices ==
    {[kind |-> "ClassDef", name |-> "A", module |-> <<>>, alias |-> <<>>],
     [kind |-> "ClassDef", name |-> "B", module |-> <<>>, alias |-> <<>>],
     [kind |-> "FunctionDef", name |-> "f", module |-> <<>>, alias |-> <<>>],
     [kind |-> "AsyncFunctionDef", name |-> "g", module |-> <<>>, alias |-> <<>>],
     [kind |-> "Import", name |-> "", module |-> <<>>, alias |-> Str_redis],
     [kind |-> "ImportFrom", name |-> "", module |-> Str_flask, alias |-> Str_F],
     [kind |-> "Other", name |-> "", module |-> <<>>, alias |-> <<>>]}

\* nodes are numbered in source order: the parent of node i is node i - 1 or
\* one of its ancestors (or Module)
WellShaped(p) ==
    /\ \A i \in 1..Len(p) : p[i].parent < i
    /\ \A i \in 2..Len(p) : p[i].parent \in {0, i - 1} \cup Ancestors(p, i - 1)

Shapes(n) == {p \in [1..n -> [parent : 0..(n - 1)]] : WellShaped(p)}

\* an import statement has no statement below it
WellFormed(t) ==
    \A i \in 1..Len(t) : t[i].parent # 0 => t[t[i].parent].c.kind \notin LeafKinds

Skeletons(n) ==
    {t \in {[i \in 1..n |-> [c |-> k[i], parent |-> p[i].parent]] :
               p \in Shapes(n), k \in [1..n -> NodeChoices]} : WellFormed(t)}

\* the last node of the subtree of node i: in source order a subtree is a
\* run of consecutive nodes
SubtreeEnd(t, i) ==
    SetMax({j \in i..Len(t) : \A k \in (i + 1)..j : t[k].parent >= i})

\* what ast.parse reports: every node on a line of its own, and end_lineno
\* the last line of the node's subtree
Located(t) ==
    [i \in 1..Len(t) |->
        [kind |-> t[i].c.kind, name |-> t[i].c.name, module |-> t[i].c.module,
         alias |-> t[i].c.alias, parent |-> t[i].parent, lineno |-> i,
         end_lineno |-> SubtreeEnd(t, i)]]

\* the trees of n nodes that ast.parse can return
ParsedTrees(n) == {Located(t) : t \in Skeletons(n)}

ReadOutcomes == {"ok", "IOError", "UnicodeDecodeError"}

Content(first, nlines, second, parse, tree) ==
    [first |-> first, nlines |-> nlines, second |-> second, parse |-> parse,
     tree |-> tree]

FailingContents ==
    {Content(f, 0, "ok", "ok", <<>>) : f \in ReadOutcomes}
    \cup {Content("ok", n, s, "ok", <<>>) :
             n \in 1..2, s \in {"IOError", "UnicodeDecodeError"}}
    \cup {Content("ok", n, "ok", p, <<>>) :
             n \in 1..2, p \in {"SyntaxError", "RecursionError"}}

\* a file of n statements, each on a line of its own (a file with no
\* statement still has a line)
ParsedContents(n) ==
    {Content("ok", Max(1, n), "ok", "ok", t) : t \in ParsedTrees(n)}

\* the longer files: every statement takes as many lines as the stride, so
\* that a function is 50 or 51 lines long, or 100, 102, 150 or 153 with the
\* statements of its body
LineStrides == {50, 51}

Spread(tree, stride) ==
    [i \in 1..Len(tree) |->
        [tree[i] EXCEPT !.lineno = (@ - 1) * stride + 1,
                        !.end_lineno = @ * stride]]

SpreadContents(n) ==
    {Content("ok", n * s, "ok", "ok", Spread(t, s)) :
        t \in ParsedTrees(n), s \in LineStrides}

count_file_lines(content) ==
    IF content.first = "ok" THEN content.nlines ELSE 0

NoResult == [path |-> <<>>]

(***************************************************************************)
(* analyze_file as one call: the record it returns, or the exception it    *)
(* lets through.                                                           *)
(***************************************************************************)
analyze_file(path, content) ==
    LET lines == count_file_lines(content)
    IN  IF lines = 0
        THEN [raised |-> FALSE,
              value |-> FailureAnalysis(path, 0, "Could not read or decode file")]
        ELSE IF content.second # "ok"
        THEN [raised |-> FALSE,
              value |-> FailureAnalysis(path, lines, "Could not read file")]
        ELSE IF content.parse = "SyntaxError"
        THEN [raised |-> FALSE,
              value |-> FailureAnalysis(path, lines, "Syntax error")]
        ELSE IF content.parse # "ok"
        THEN [raised |-> TRUE, value |-> content.parse]
        ELSE [raised |-> FALSE,
              value |-> SuccessAnalysis(path, lines,
                                        RunVisitor(content.tree, NewAnalyzer))]

(***************************************************************************)
(* collect_python_files.  A directory is [name, files, dirs]: the files    *)
(* and the sub-directories in the order os.walk lists them; a file is      *)
(* [name, content].  A path relative to the root is the sequence of its    *)
(* components.                                                             *)
(***************************************************************************)
Str_pb2_py == <<"_", "p", "b", "2", ".", "p", "y">>
Str_init_py == <<"_", "_", "i", "n", "i", "t", "_", "_", ".", "p", "y">>
Str_test_prefix == <<"t", "e", "s", "t", "_">>
Str_test_py == <<"_", "t", "e", "s", "t", ".", "p", "y">>

skip_dirs == {<<".", "g", "i", "t">>,
              <<"_", "_", "p", "y", "c", "a", "c", "h", "e", "_", "_">>,
              <<".", "p", "y", "t", "e", "s", "t", "_", "c", "a", "c", "h", "e">>,
              <<".", "t", "o", "x">>,
              <<"v", "e", "n", "v">>,
              <<"e", "n", "v">>,
              <<".", "v", "e", "n", "v">>,
              <<"n", "o", "d", "e", "_", "m", "o", "d", "u", "l", "e", "s">>,
              <<"b", "u", "i", "l", "d">>,
              <<"d", "i", "s", "t">>,
              <<"t", "a", "r", "g", "e", "t">>,
              <<"v", "e", "n", "d", "o", "r">>}

\* a slip: the generated-file suffix is not looked at
is_selected_with_pb2(name, exclude_tests) ==
    /\ EndsWith(name, Str_py)
    /\ name # Str_init_py
    /\ ~(exclude_tests
            /\ (StartsWith(name, Str_test_prefix) \/ EndsWith(name, Str_test_py)))

\* a slip: test files are skipped whatever exclude_tests says
is_selected_never_tests(name, exclude_tests) ==
    /\ EndsWith(name, Str_py) /\ ~EndsWith(name, Str_pb2_py)
    /\ name # Str_init_py
    /\ ~(StartsWith(name, Str_test_prefix) \/ EndsWith(name, Str_test_py))

\* lines 252-259: the file is analyzed
is_selected(name, exclude_tests) ==
    /\ EndsWith(name, Str_py) /\ ~EndsWith(name, Str_pb2_py)
    /\ name # Str_init_py
    /\ ~(exclude_tests
            /\ (StartsWith(name, Str_test_prefix) \/ EndsWith(name, Str_test_py)))

\* lines 251-264: the loop over the files of one directory; it stops at the
\* first exception analyze_file lets through
RECURSIVE collect_files(_, _, _, _, _)
collect_files(files, i, rel, exclude_tests, acc) ==
    IF i > Len(files) \/ acc.raised THEN acc
    ELSE IF ~is_selected(files[i].name, exclude_tests)
    THEN collect_files(files, i + 1, rel, exclude_tests, acc)
    ELSE LET r == analyze_file(Append(rel, files[i].name), files[i].content)
         IN  IF r.raised
             THEN [acc EXCEPT !.raised = TRUE, !.exception = r.value]
             ELSE collect_files(files, i + 1, rel, exclude_tests,
                                [acc EXCEPT !.analyses = Append(@, r.value)])

\* line 249: dirs[:] = [d for d in dirs if d not in skip_dirs]
RECURSIVE prune_dirs(_)
prune_dirs(dirs) ==
    IF dirs = <<>> THEN <<>>
    ELSE IF Head(dirs).name \in skip_dirs THEN prune_dirs(Tail(dirs))
    ELSE <<Head(dirs)>> \o prune_dirs(Tail(dirs))

\* line 247: os.walk, top-down: the files of a directory, then each of the
\* sub-directories left in dirs
RECURSIVE walk_dir(_, _, _, _)
RECURSIVE walk_dirs(_, _, _, _, _)
walk_dir(dir, rel, exclude_tests, acc) ==
    walk_dirs(prune_dirs(dir.dirs), 1, rel, exclude_tests,
              collect_files(dir.files, 1, rel, exclude_tests, acc))

walk_dirs(dirs, i, rel, exclude_tests, acc) ==
    IF i > Len(dirs) \/ acc.raised THEN acc
    ELSE walk_dirs(dirs, i + 1, rel, exclude_tests,
                   walk_dir(dirs[i], Append(rel, dirs[i].name), exclude_tests, acc))

\* os.walk ignores the error of listing a root that does not exist and
\* yields nothing
collect_python_files(tree, exclude_tests) ==
    LET start == [raised |-> FALSE, exception |-> "", analyses |-> <<>>]
    IN  IF tree.exists THEN walk_dir(tree.root, <<>>, exclude_tests, start)
        ELSE start

(***************************************************************************)
(* print_analysis and the sort of main.                                    *)
(***************************************************************************)
\* a slip: an element goes before the elements of the same line count
insert_by_lines_before_ties(sorted, x) ==
    LET k == Cardinality({i \in 1..Len(sorted) : sorted[i].lines > x.lines})
    IN  SubSeq(sorted, 1, k) \o <<x>> \o SubSeq(sorted, k + 1, Len(sorted))

\* list.sort / sorted with key = lines and reverse = True keep the elements
\* of equal line count in their original order: each element goes after the
\* elements whose line count is not smaller
insert_by_lines(sorted, x) ==
    LET k == Cardinality({i \in 1..Len(sorted) : sorted[i].lines >= x.lines})
    IN  SubSeq(sorted, 1, k) \o <<x>> \o SubSeq(sorted, k + 1, Len(sorted))

RECURSIVE sort_by_lines(_, _, _)
sort_by_lines(s, i, sorted) ==
    IF i > Len(s) THEN sorted
    ELSE sort_by_lines(s, i + 1, insert_by_lines(sorted, s[i]))

\* a slip: the list is left in the order it came in
sorted_by_lines_desc_skipped(s) == s

sorted_by_lines_desc(s) == sort_by_lines(s, 1, <<>>)

\* s[:limit] of Python: a negative limit counts from the end
slice_to(s, limit) ==
    IF limit >= 0 THEN SubSeq(s, 1, Min(limit, Len(s)))
    ELSE SubSeq(s, 1, Max(0, Len(s) + limit))

\* the lines print_analysis writes, one record a line; the order of the
\* parts of the "methods" line is not kept
print_analysis(analysis, top_functions) ==
    LET header == <<[line |-> "file", lines |-> analysis.lines, path |-> analysis.path]>>
        classes ==
            <<[line |-> "classes", count |-> Len(analysis.classes),
               names |-> slice_to(analysis.classes, 3),
               more |-> Len(analysis.classes) > 3]>>
        methods ==
            <<[line |-> "methods", counts |-> analysis.method_counts,
               top_level |-> analysis.top_level_functions]>>
        b == calculate_function_buckets(analysis.functions)
        bucket_line == <<[line |-> "buckets", counts |-> b]>>
        sorted_funcs == sorted_by_lines_desc(analysis.functions)
        limit == Min(top_functions, Len(sorted_funcs))
        shown == slice_to(sorted_funcs, limit)
        funcs ==
            IF analysis.functions # <<>>
            THEN <<[line |-> "funcs", limit |-> limit]>>
                 \o [i \in 1..Len(shown) |-> [line |-> "func", func |-> shown[i]]]
            ELSE <<>>
        notes == [i \in 1..Len(analysis.notes) |->
                    [line |-> "note", note |-> analysis.notes[i]]]
    IN  header \o classes \o methods \o bucket_line \o funcs \o notes

\* lines 368-371: the loop over range(limit), from round i on
RECURSIVE print_files(_, _, _, _, _)
print_files(sorted, i, limit, top_functions, out) ==
    IF i >= limit THEN out
    ELSE print_files(sorted, i + 1, limit, top_functions,
                     out \o (IF i > 0 THEN <<[line |-> ""]>> ELSE <<>>)
                         \o print_analysis(sorted[i + 1], top_functions))

\* lines 362-371: what main prints for a list of analyses that is not empty
report(list, n, top_functions) ==
    LET sorted == sorted_by_lines_desc(list)
        limit == Min(n, Len(sorted))
    IN  print_files(sorted, 0, limit, top_functions, <<>>)

(***************************************************************************)
(* The values of the variables a specification does not use.               *)
(***************************************************************************)
EmptyDir == [name |-> <<>>, files |-> <<>>, dirs |-> <<>>]
NoTree == [exists |-> FALSE, root |-> EmptyDir]
NotCalled == [raised |-> FALSE, exception |-> "not called", analyses |-> <<>>]
NothingReturned == [excl |-> NotCalled, incl |-> NotCalled]
\* the defaults of the argument parser
DefaultArgs == [n |-> 20, topfuncs |-> 5, include_tests |-> FALSE]
\* the exit code while the process has not exited
Running == -1

(***************************************************************************)
(* Spec: analyze_file on one file, the traversal taken node by node.       *)
(*   pc = "start"     analyze_file has been called                         *)
(*        "visiting"  analyzer.visit(tree) is running                      *)
(*        "done"      analyze_file has returned result                     *)
(*        "raised"    analyze_file has let an exception through            *)
(***************************************************************************)
ModulePath == <<<<"m">> \o Str_py>>

Init ==
    /\ \/ \E c \in FailingContents : file = [path |-> ModulePath, content |-> c]
       \/ \E n \in 0..MaxNodes : \E c \in ParsedContents(n) :
             file = [path |-> ModulePath, content |-> c]
       \/ \E n \in 1..MaxNodes : \E c \in SpreadContents(n) :
             file = [path |-> ModulePath, content |-> c]
    /\ pc = "start"
    /\ visitor = NewAnalyzer
    /\ result = NoResult
    /\ func_list = <<>>
    /\ buckets = NoBuckets
    /\ fs = NoTree
    /\ returned = NothingReturned
    /\ args = DefaultArgs
    /\ analyses = <<>>
    /\ raised = ""
    /\ index = 0
    /\ stdout = <<>>
    /\ stderr = <<>>
    /\ exit_code = Running

\* lines 136-147: count_file_lines returned 0
ReturnUnreadable ==
    /\ pc = "start"
    /\ count_file_lines(file.content) = 0
    /\ result' = FailureAnalysis(file.path, 0, "Could not read or decode file")
    /\ pc' = "done"
    /\ UNCHANGED <<file, visitor, bucketVars, collectVars, mainVars>>

\* lines 149-162: the second read failed
ReturnReadFailed ==
    /\ pc = "start"
    /\ count_file_lines(file.content) # 0
    /\ file.content.second # "ok"
    /\ result' = FailureAnalysis(file.path, count_file_lines(file.content),
                                 "Could not read file")
    /\ pc' = "done"
    /\ UNCHANGED <<file, visitor, bucketVars, collectVars, mainVars>>

\* lines 167-180: ast.parse raised SyntaxError
ReturnSyntaxError ==
    /\ pc = "start"
    /\ count_file_lines(file.content) # 0
    /\ file.content.second = "ok"
    /\ file.content.parse = "SyntaxError"
    /\ result' = FailureAnalysis(file.path, count_file_lines(file.content),
                                 "Syntax error")
    /\ pc' = "done"
    /\ UNCHANGED <<file, visitor, bucketVars, collectVars, mainVars>>

\* lines 167-170: an exception that is no SyntaxError is not caught
RaiseUncaught ==
    /\ pc = "start"
    /\ count_file_lines(file.content) # 0
    /\ file.content.second = "ok"
    /\ file.content.parse \notin {"ok", "SyntaxError"}
    /\ pc' = "raised"
    /\ UNCHANGED <<file, visitor, result, bucketVars, collectVars, mainVars>>

\* lines 164-169: the tree is parsed and analyzer.visit(tree) starts
StartVisit ==
    /\ pc = "start"
    /\ count_file_lines(file.content) # 0
    /\ file.content.second = "ok"
    /\ file.content.parse = "ok"
    /\ visitor' = NewAnalyzer
    /\ pc' = "visiting"
    /\ UNCHANGED <<file, result, bucketVars, collectVars, mainVars>>

Visiting(kind) ==
    /\ pc = "visiting"
    /\ HasNextChild(file.content.tree, visitor)
    /\ file.content.tree[visitor.pos].kind = kind

VisitClassDef ==
    /\ Visiting("ClassDef")
    /\ visitor' = visit_ClassDef(file.content.tree, visitor)
    /\ UNCHANGED <<file, pc, result, bucketVars, collectVars, mainVars>>

LeaveClassDef ==
    /\ pc = "visiting"
    /\ ~HasNextChild(file.content.tree, visitor)
    /\ visitor.frames # <<>>
    /\ file.content.tree[CurrentFrame(visitor)].kind = "ClassDef"
    /\ visitor' = leave_ClassDef(file.content.tree, visitor)
    /\ UNCHANGED <<file, pc, result, bucketVars, collectVars, mainVars>>

VisitFunctionDef ==
    /\ Visiting("FunctionDef")
    /\ visitor' = process_function(file.content.tree, visitor, FALSE)
    /\ UNCHANGED <<file, pc, result, bucketVars, collectVars, mainVars>>

VisitAsyncFunctionDef ==
    /\ Visiting("AsyncFunctionDef")
    /\ visitor' = process_function(file.content.tree, visitor, TRUE)
    /\ UNCHANGED <<file, pc, result, bucketVars, collectVars, mainVars>>

VisitImport ==
    /\ Visiting("Import")
    /\ visitor' = visit_Import(file.content.tree, visitor)
    /\ UNCHANGED <<file, pc, result, bucketVars, collectVars, mainVars>>

VisitImportFrom ==
    /\ Visiting("ImportFrom")
    /\ visitor' = visit_ImportFrom(file.content.tree, visitor)
    /\ UNCHANGED <<file, pc, result, bucketVars, collectVars, mainVars>>

GenericVisit ==
    /\ Visiting("Other")
    /\ visitor' = generic_visit(file.content.tree, visitor)
    /\ UNCHANGED <<file, pc, result, bucketVars, collectVars, mainVars>>

ReturnFromVisit ==
    /\ pc = "visiting"
    /\ ~HasNextChild(file.content.tree, visitor)
    /\ visitor.frames # <<>>
    /\ file.content.tree[CurrentFrame(visitor)].kind # "ClassDef"
    /\ visitor' = return_from_visit(file.content.tree, visitor)
    /\ UNCHANGED <<file, pc, result, bucketVars, collectVars, mainVars>>

\* lines 182-238: the traversal is over; the metrics and the notes
ReturnAnalysis ==
    /\ pc = "visiting"
    /\ VisitDone(file.content.tree, visitor)
    /\ result' = SuccessAnalysis(file.path, count_file_lines(file.content), visitor)
    /\ pc' = "done"
    /\ UNCHANGED <<file, visitor, bucketVars, collectVars, mainVars>>

Next ==
    \/ ReturnUnreadable
    \/ ReturnReadFailed
    \/ ReturnSyntaxError
    \/ RaiseUncaught
    \/ StartVisit
    \/ VisitClassDef
    \/ LeaveClassDef
    \/ VisitFunctionDef
    \/ VisitAsyncFunctionDef
    \/ VisitImport
    \/ VisitImportFrom
    \/ GenericVisit
    \/ ReturnFromVisit
    \/ ReturnAnalysis

Spec == Init /\ [][Next]_vars

\* the stepwise traversal and the single call return the same record
StepwiseAgrees ==
    pc = "done" => result = analyze_file(file.path, file.content).value

(***************************************************************************)
(* SpecSpan: the visitor on a hand-built function node whose line numbers  *)
(* are arbitrary: the function's lineno is any line, its end_lineno any    *)
(* line or missing, and each node below it has any lineno and end_lineno,  *)
(* a lineno and no end_lineno, or neither.                                 *)
(***************************************************************************)
\* the numbers of nodes of the hand-built subtrees
SpanSizes == 1..3

SpanShapes(n) == {p \in Shapes(n) : \A i \in 2..n : p[i].parent # 0}

SpanTrees(n) ==
    {[i \in 1..n |->
        [kind |-> IF i = 1 THEN k ELSE "Other",
         name |-> IF i = 1 THEN "f" ELSE "", module |-> <<>>, alias |-> <<>>,
         parent |-> p[i].parent, lineno |-> l[i], end_lineno |-> e[i]]] :
        k \in FunctionKinds, p \in SpanShapes(n),
        l \in [1..n -> 0..MaxLine], e \in [1..n -> 0..MaxLine]}

InitSpan ==
    /\ \E n \in SpanSizes : \E t \in SpanTrees(n) :
          /\ t[1].lineno # 0
          /\ \A i \in 1..n : t[i].lineno = 0 => t[i].end_lineno = 0
          /\ file = [path |-> ModulePath,
                     content |-> Content("ok", MaxLine, "ok", "ok", t)]
    /\ pc = "visiting"
    /\ visitor = NewAnalyzer
    /\ result = NoResult
    /\ func_list = <<>>
    /\ buckets = NoBuckets
    /\ fs = NoTree
    /\ returned = NothingReturned
    /\ args = DefaultArgs
    /\ analyses = <<>>
    /\ raised = ""
    /\ index = 0
    /\ stdout = <<>>
    /\ stderr = <<>>
    /\ exit_code = Running

NextSpan ==
    \/ VisitFunctionDef
    \/ VisitAsyncFunctionDef
    \/ GenericVisit
    \/ ReturnFromVisit

SpecSpan == InitSpan /\ [][NextSpan]_vars

(***************************************************************************)
(* SpecBuckets: _calculate_function_buckets on a list of functions whose   *)
(* line counts are taken on both sides of each bucket boundary.            *)
(***************************************************************************)
LineSamples == {1, 19, 20, 49, 50, 51, 100, 101}

SampleFunction(lines) ==
    [name |-> "f", lines |-> lines, statements |-> 1, is_async |-> FALSE,
     is_method |-> FALSE, class_name |-> None]

InitBuckets ==
    /\ \E n \in 0..MaxFunctions : \E l \in [1..n -> LineSamples] :
          func_list = [i \in 1..n |-> SampleFunction(l[i])]
    /\ buckets = NoBuckets
    /\ file = [path |-> ModulePath, content |-> Content("ok", 0, "ok", "ok", <<>>)]
    /\ pc = "buckets"
    /\ visitor = NewAnalyzer
    /\ result = NoResult
    /\ fs = NoTree
    /\ returned = NothingReturned
    /\ args = DefaultArgs
    /\ analyses = <<>>
    /\ raised = ""
    /\ index = 0
    /\ stdout = <<>>
    /\ stderr = <<>>
    /\ exit_code = Running

CalculateFunctionBuckets ==
    /\ pc = "buckets"
    /\ buckets = NoBuckets
    /\ buckets' = calculate_function_buckets(func_list)
    /\ UNCHANGED <<func_list, analyzeVars, collectVars, mainVars>>

NextBuckets == CalculateFunctionBuckets

SpecBuckets == InitBuckets /\ [][NextBuckets]_vars

(***************************************************************************)
(* Directory trees.  The names in one directory are distinct.              *)
(***************************************************************************)
Name_a_py == <<"a", ".", "p", "y">>
Name_b_py == <<"b", ".", "p", "y">>
Name_x_pb2_py == <<"x", "_", "p", "b", "2", ".", "p", "y">>
Name_test_x_py == <<"t", "e", "s", "t", "_", "x", ".", "p", "y">>
Name_x_test_py == <<"x", "_", "t", "e", "s", "t", ".", "p", "y">>
Name_test_x_pb2_py == <<"t", "e", "s", "t", "_", "x", "_", "p", "b", "2", ".", "p", "y">>
Name_a_txt == <<"a", ".", "t", "x", "t">>
Name_pkg == <<"p", "k", "g">>
Name_venv == <<"v", "e", "n", "v">>
Name_lib_py == <<"l", "i", "b", ".", "p", "y">>

DistinctSeqs(S, n) ==
    {q \in [1..n -> S] : \A i \in 1..n : \A j \in 1..n : i # j => q[i] # q[j]}

\* a file that reads and parses, with nlines lines and the tree given
PlainFile(name, nlines, tree) ==
    [name |-> name, content |-> Content("ok", nlines, "ok", "ok", tree)]

\* the files of a directory: names from Names in any order, contents from
\* Contents
FileLists(Names, Contents) ==
    UNION {{[i \in 1..n |-> [name |-> q[i], content |-> c[i]]] :
               q \in DistinctSeqs(Names, n), c \in [1..n -> Contents]} :
           n \in 0..MaxFiles}

\* the sub-directories of the root: none, a package or a virtual environment
SubDirs(Names) ==
    {<<>>}
    \cup {<<[name |-> d, files |-> <<PlainFile(f, 1, <<>>)>>, dirs |-> <<>>]>> :
             d \in {Name_pkg, Name_venv}, f \in Names}

Trees(Names, Contents, SubNames) ==
    {[exists |-> TRUE, root |-> [name |-> <<>>, files |-> fl, dirs |-> ds]] :
        fl \in FileLists(Names, Contents), ds \in SubDirs(SubNames)}

(***************************************************************************)
(* SpecCollect: collect_python_files called with exclude_tests = True and  *)
(* with exclude_tests = False on one directory tree, as                    *)
(* test_collect_python_files does.  Every file reads and parses.           *)
(***************************************************************************)
CollectNames ==
    {Name_a_py, Name_b_py, Str_init_py, Name_x_pb2_py, Name_test_x_py,
     Name_x_test_py, Name_test_x_pb2_py, Name_a_txt}

InitCollect ==
    /\ fs \in Trees(CollectNames, {Content("ok", 1, "ok", "ok", <<>>)}, CollectNames)
    /\ returned = NothingReturned
    /\ pc = "test"
    /\ file = [path |-> ModulePath, content |-> Content("ok", 0, "ok", "ok", <<>>)]
    /\ visitor = NewAnalyzer
    /\ result = NoResult
    /\ func_list = <<>>
    /\ buckets = NoBuckets
    /\ args = DefaultArgs
    /\ analyses = <<>>
    /\ raised = ""
    /\ index = 0
    /\ stdout = <<>>
    /\ stderr = <<>>
    /\ exit_code = Running

\* collect_python_files(self.test_dir, exclude_tests=True)
CollectExcludingTests ==
    /\ pc = "test"
    /\ returned.excl = NotCalled
    /\ returned' = [returned EXCEPT !.excl = collect_python_files(fs, TRUE)]
    /\ UNCHANGED <<fs, analyzeVars, bucketVars, mainVars>>

\* collect_python_files(self.test_dir, exclude_tests=False)
CollectIncludingTests ==
    /\ pc = "test"
    /\ returned.incl = NotCalled
    /\ returned' = [returned EXCEPT !.incl = collect_python_files(fs, FALSE)]
    /\ UNCHANGED <<fs, analyzeVars, bucketVars, mainVars>>

NextCollect == CollectExcludingTests \/ CollectIncludingTests

SpecCollect == InitCollect /\ [][NextCollect]_vars

(***************************************************************************)
(* SpecMain: one run of main.                                              *)
(*   pc = "main_start"      the arguments are parsed                       *)
(*        "main_collected"  collect_python_files has returned              *)
(*        "main_printing"   the list is sorted; the loop over range(limit) *)
(*        "main_except"     an exception is on its way to the handler      *)
(*        "main_done"       the process has exited with exit_code          *)
(***************************************************************************)
MainNames == {Name_a_py, Name_b_py, Name_test_x_py}

\* def f / class A / def f in A, as simple.py of the tests
SimpleTree ==
    Located(<<[c |-> [kind |-> "FunctionDef", name |-> "f", module |-> <<>>,
                      alias |-> <<>>], parent |-> 0],
              [c |-> [kind |-> "ClassDef", name |-> "A", module |-> <<>>,
                      alias |-> <<>>], parent |-> 0],
              [c |-> [kind |-> "FunctionDef", name |-> "f", module |-> <<>>,
                      alias |-> <<>>], parent |-> 2]>>)

MainContents ==
    {Content("IOError", 0, "ok", "ok", <<>>),
     Content("UnicodeDecodeError", 0, "ok", "ok", <<>>),
     Content("ok", 2, "ok", "SyntaxError", <<>>),
     Content("ok", 1, "ok", "RecursionError", <<>>),
     Content("ok", 1, "ok", "ok", <<>>),
     Content("ok", 2, "ok", "ok", <<>>),
     Content("ok", 3, "ok", "ok", SimpleTree)}

InitMain ==
    /\ fs \in Trees(MainNames, MainContents, {Name_lib_py}) \cup {NoTree}
    /\ args \in [n : -1..MaxShown, topfuncs : {5}, include_tests : BOOLEAN]
    /\ pc = "main_start"
    /\ analyses = <<>>
    /\ raised = ""
    /\ index = 0
    /\ stdout = <<>>
    /\ stderr = <<>>
    /\ exit_code = Running
    /\ returned = NothingReturned
    /\ file = [path |-> ModulePath, content |-> Content("ok", 0, "ok", "ok", <<>>)]
    /\ visitor = NewAnalyzer
    /\ result = NoResult
    /\ func_list = <<>>
    /\ buckets = NoBuckets

\* lines 355-356
MainCollect ==
    /\ pc = "main_start"
    /\ LET r == collect_python_files(fs, ~args.include_tests)
       IN  IF r.raised
           THEN /\ raised' = r.exception
                /\ pc' = "main_except"
                /\ UNCHANGED analyses
           ELSE /\ analyses' = r.analyses
                /\ pc' = "main_collected"
                /\ UNCHANGED raised
    /\ UNCHANGED <<args, index, stdout, stderr, exit_code, analyzeVarsButPc,
                   bucketVars, collectVars>>

\* lines 358-360
MainNoFiles ==
    /\ pc = "main_collected"
    /\ analyses = <<>>
    /\ stdout' = Append(stdout, [line |-> "No Python files found"])
    /\ exit_code' = 0
    /\ pc' = "main_done"
    /\ UNCHANGED <<args, analyses, raised, index, stderr, analyzeVarsButPc,
                   bucketVars, collectVars>>

\* lines 362-366
MainSort ==
    /\ pc = "main_collected"
    /\ analyses # <<>>
    /\ analyses' = sorted_by_lines_desc(analyses)
    /\ index' = 0
    /\ pc' = "main_printing"
    /\ UNCHANGED <<args, raised, stdout, stderr, exit_code, analyzeVarsButPc,
                   bucketVars, collectVars>>

\* lines 368-371: one round of the loop
MainPrintFile ==
    /\ pc = "main_printing"
    /\ index < Min(args.n, Len(analyses))
    /\ stdout' = stdout \o (IF index > 0 THEN <<[line |-> ""]>> ELSE <<>>)
                        \o print_analysis(analyses[index + 1], args.topfuncs)
    /\ index' = index + 1
    /\ UNCHANGED <<args, analyses, raised, stderr, exit_code, pc,
                   analyzeVarsButPc, bucketVars, collectVars>>

\* the loop is over and main returns
MainReturn ==
    /\ pc = "main_printing"
    /\ index >= Min(args.n, Len(analyses))
    /\ exit_code' = 0
    /\ pc' = "main_done"
    /\ UNCHANGED <<args, analyses, raised, index, stdout, stderr,
                   analyzeVarsButPc, bucketVars, collectVars>>

\* lines 373-375
MainExcept ==
    /\ pc = "main_except"
    /\ stderr' = Append(stderr, [line |-> "Error", exception |-> raised])
    /\ exit_code' = 1
    /\ pc' = "main_done"
    /\ UNCHANGED <<args, analyses, raised, index, stdout, analyzeVarsButPc,
                   bucketVars, collectVars>>

NextMain ==
    \/ MainCollect
    \/ MainNoFiles
    \/ MainSort
    \/ MainPrintFile
    \/ MainReturn
    \/ MainExcept

SpecMain == InitMain /\ [][NextMain]_vars

\* the loop taken round by round prints what report gives in one call
ReportAgrees ==
    (pc = "main_done" /\ exit_code = 0 /\ analyses # <<>>) =>
        stdout = report(collect_python_files(fs, ~args.include_tests).analyses,
                        args.n, args.topfuncs)

(***************************************************************************)
(* SpecPrint: one file is analyzed and print_analysis prints its record,   *)
(* as main does at line 371 with the value of -topfuncs, which is any      *)
(* integer (type=int).                                                     *)
(*   pc = "print_start"  the file has been selected                        *)
(*        "print_ready"  analyze_file has returned result                  *)
(*        "print_done"   print_analysis has returned                       *)
(***************************************************************************)
InitPrint ==
    /\ \E n \in 0..MaxNodes : \E c \in ParsedContents(n) :
          file = [path |-> ModulePath, content |-> c]
    /\ \E k \in (-MaxTopFuncs)..MaxTopFuncs :
          args = [DefaultArgs EXCEPT !.topfuncs = k]
    /\ pc = "print_start"
    /\ visitor = NewAnalyzer
    /\ result = NoResult
    /\ func_list = <<>>
    /\ buckets = NoBuckets
    /\ fs = NoTree
    /\ returned = NothingReturned
    /\ analyses = <<>>
    /\ raised = ""
    /\ index = 0
    /\ stdout = <<>>
    /\ stderr = <<>>
    /\ exit_code = Running

\* line 263: analysis = analyze_file(rel_path, root_dir)
AnalyzeFile ==
    /\ pc = "print_start"
    /\ result' = analyze_file(file.path, file.content).value
    /\ pc' = "print_ready"
    /\ UNCHANGED <<file, visitor, bucketVars, collectVars, mainVars>>

\* line 371: print_analysis(analyses[i], args.topfuncs)
PrintAnalysis ==
    /\ pc = "print_ready"
    /\ stdout' = stdout \o print_analysis(result, args.topfuncs)
    /\ pc' = "print_done"
    /\ UNCHANGED <<args, analyses, raised, index, stderr, exit_code,
                   analyzeVarsButPc, bucketVars, collectVars>>

NextPrint == AnalyzeFile \/ PrintAnalysis

SpecPrint == InitPrint /\ [][NextPrint]_vars

(***************************************************************************)
(* The claims.                                                             *)
(***************************************************************************)
TheTree == file.content.tree

\* x is the largest member of S
IsMaxOf(x, S) == x \in S /\ \A y \in S : y <= x

\* the line numbers a node of the subtree of n reports (0: none)
LinesIn(n) ==
    {TheTree[j].lineno : j \in Walk(TheTree, n)}
    \cup {TheTree[j].end_lineno : j \in Walk(TheTree, n)}

\* C1: in every FileAnalysis analyze_file returns, for a success and for a
\* failure, top_level_functions plus the sum of the values of method_counts
\* is the number of functions.
C1_CountsPartitionFunctions ==
    pc = "done" =>
        result.top_level_functions + SumValues(result.method_counts)
            = Len(result.functions)

\* C1 happens: a class nested in a class of the same name, with a method
C1_Witness ==
    /\ pc = "done"
    /\ result.classes = <<"A", "A">>
    /\ Len(result.functions) = 1
    /\ DOMAIN result.method_counts = {"A"}
    /\ result.method_counts["A"] = 1
    /\ TheTree[2].parent = 1

\* the three failure kinds: the file cannot be read, cannot be decoded, or
\* cannot be parsed (SyntaxError)
Unreadable(content) == "IOError" \in {content.first, content.second}
Undecodable(content) == "UnicodeDecodeError" \in {content.first, content.second}
Unparsable(content) ==
    content.first = "ok" /\ content.nlines > 0 /\ content.second = "ok"
    /\ content.parse = "SyntaxError"
Failed(content) ==
    Unreadable(content) \/ Undecodable(content) \/ Unparsable(content)

NoDeclarations(a) ==
    /\ a.classes = <<>>
    /\ a.functions = <<>>
    /\ a.imports = <<>>
    /\ DOMAIN a.method_counts = {}
    /\ a.top_level_functions = 0

\* C4 as stated: a failure of any of the three kinds gives a record with
\* lines = 0, no declarations and exactly one note.
C4_FailureHasZeroLines ==
    (pc = "done" /\ Failed(file.content)) =>
        /\ result.lines = 0
        /\ NoDeclarations(result)
        /\ Len(result.notes) = 1

\* C4 amended: a failure of any of the three kinds gives a record with no
\* declarations and exactly one note; lines is 0 when count_file_lines could
\* not read or decode the file, and the file's number of lines when the
\* failure came later (a syntax error, or the second read failing).
C4_FailureRecord ==
    (pc = "done" /\ Failed(file.content)) =>
        /\ NoDeclarations(result)
        /\ Len(result.notes) = 1
        /\ file.content.first # "ok" => result.lines = 0
        /\ file.content.first = "ok" => result.lines = file.content.nlines

\* C4 happens: a file with a syntax error has returned its record
C4_Witness ==
    /\ pc = "done"
    /\ Unparsable(file.content)
    /\ result.lines > 0
    /\ Len(result.notes) = 1

\* the k-th call of _process_function and the node it was called on
SpanNode(k) == TheTree[visitor.spans[k].node]

\* C9: every FunctionInfo has end_line >= start_line and
\* lines = end_line - start_line + 1 >= 1, whatever the node reports; when
\* the reported end is smaller than the start, or missing with no line of
\* the subtree after the start, the end is the start.
C9_SpanIsOrdered ==
    \A k \in 1..Len(visitor.functions) :
        LET sp == visitor.spans[k]
            f == visitor.functions[k]
        IN  /\ sp.start_line = SpanNode(k).lineno
            /\ sp.end_line >= sp.start_line
            /\ f.lines = sp.end_line - sp.start_line + 1
            /\ f.lines >= 1
            /\ (SpanNode(k).end_lineno # 0
                    /\ SpanNode(k).end_lineno < SpanNode(k).lineno)
                  => sp.end_line = sp.start_line
            /\ (SpanNode(k).end_lineno = 0
                    /\ \A x \in LinesIn(sp.node) : x <= SpanNode(k).lineno)
                  => sp.end_line = sp.start_line

\* C9 happens: a function whose reported end is before its start
C9_Witness ==
    \E k \in 1..Len(visitor.functions) :
        /\ SpanNode(k).end_lineno # 0
        /\ SpanNode(k).end_lineno < SpanNode(k).lineno
        /\ visitor.functions[k].lines = 1

LinesWithin(lo, hi) ==
    Cardinality({i \in 1..Len(func_list) :
                    func_list[i].lines >= lo /\ func_list[i].lines <= hi})

\* C2: each function is counted in exactly one bucket: over100 iff
\* lines > 100, between50_100 iff 50 <= lines <= 100, between20_49 iff
\* 20 <= lines <= 49, under20 iff lines < 20; so the four counts add up to
\* the number of functions and a function of 100 lines is in between50_100.
C2_BucketsPartition ==
    buckets # NoBuckets =>
        /\ buckets.over100 =
              Cardinality({i \in 1..Len(func_list) : func_list[i].lines > 100})
        /\ buckets.between50_100 = LinesWithin(50, 100)
        /\ buckets.between20_49 = LinesWithin(20, 49)
        /\ buckets.under20 =
              Cardinality({i \in 1..Len(func_list) : func_list[i].lines < 20})
        /\ buckets.over100 + buckets.between50_100 + buckets.between20_49
              + buckets.under20 = Len(func_list)

\* C2 happens: a function of exactly 100 lines has been counted, and no
\* function is over 100 lines
C2_Witness ==
    /\ buckets # NoBuckets
    /\ \E i \in 1..Len(func_list) : func_list[i].lines = 100
    /\ \A i \in 1..Len(func_list) : func_list[i].lines <= 100
    /\ buckets.between50_100 >= 1
    /\ buckets.over100 = 0
    /\ Len(func_list) = MaxFunctions

(***************************************************************************)
(* The claims about collect_python_files and main.                         *)
(***************************************************************************)
\* the files of the tree in the order os.walk finds them, each with its path
\* relative to the root and whether a directory above it is skipped (the
\* trees have the root and one level of directories below it)
RECURSIVE EntriesBelow(_, _)
EntriesBelow(dirs, i) ==
    IF i > Len(dirs) THEN <<>>
    ELSE [k \in 1..Len(dirs[i].files) |->
            [path |-> <<dirs[i].name, dirs[i].files[k].name>>,
             name |-> dirs[i].files[k].name,
             content |-> dirs[i].files[k].content,
             skipped |-> dirs[i].name \in skip_dirs]]
         \o EntriesBelow(dirs, i + 1)

Entries ==
    IF ~fs.exists THEN <<>>
    ELSE [k \in 1..Len(fs.root.files) |->
            [path |-> <<fs.root.files[k].name>>,
             name |-> fs.root.files[k].name,
             content |-> fs.root.files[k].content,
             skipped |-> FALSE]]
         \o EntriesBelow(fs.root.dirs, 1)

\* the naming conventions of the specification
TestNamed(name) ==
    \/ /\ Len(name) >= 5
       /\ SubSeq(name, 1, 5) = <<"t", "e", "s", "t", "_">>
    \/ /\ Len(name) >= 8
       /\ SubSeq(name, Len(name) - 7, Len(name))
             = <<"_", "t", "e", "s", "t", ".", "p", "y">>

PackageMarker(name) == name = <<"_", "_", "i", "n", "i", "t", "_", "_", ".", "p", "y">>

Generated(name) ==
    /\ Len(name) >= 7
    /\ SubSeq(name, Len(name) - 6, Len(name)) = <<"_", "p", "b", "2", ".", "p", "y">>

PythonSource(name) ==
    Len(name) >= 3 /\ SubSeq(name, Len(name) - 2, Len(name)) = <<".", "p", "y">>

\* eligible whatever the flag says
Eligible(e) ==
    ~e.skipped /\ PythonSource(e.name) /\ ~Generated(e.name) /\ ~PackageMarker(e.name)

RECURSIVE Keep(_, _)
Keep(s, ok) ==
    IF s = <<>> THEN <<>>
    ELSE IF ok[1] THEN <<Head(s)>> \o Keep(Tail(s), Tail(ok))
    ELSE Keep(Tail(s), Tail(ok))

\* the entries the Collector has to analyze, in discovery order
SelectedEntries(exclude_tests) ==
    Keep(Entries,
         [k \in 1..Len(Entries) |->
            Eligible(Entries[k]) /\ ~(exclude_tests /\ TestNamed(Entries[k].name))])

PathsOf(list) == [k \in 1..Len(list) |-> list[k].path]

\* C3 as stated: whatever files cannot be read, decoded or parsed,
\* collect_python_files runs to its end and returns one FileAnalysis for each
\* selected file, in discovery order, the files that read and parse
\* analyzed as usual.
C3_FailuresDoNotAbort ==
    pc \in {"main_collected", "main_except"} =>
        LET sel == SelectedEntries(~args.include_tests)
        IN  /\ pc = "main_collected"
            /\ PathsOf(analyses) = PathsOf(sel)
            /\ \A k \in 1..Len(sel) :
                  (sel[k].content.first = "ok" /\ sel[k].content.parse = "ok")
                     => /\ analyses[k].lines = sel[k].content.nlines
                        /\ analyses[k].notes = <<>>

\* a top-level error that ends the run: the scan root does not exist, or
\* collect_python_files let an exception through
FatalError ==
    ~fs.exists \/ collect_python_files(fs, ~args.include_tests).raised

\* C5 as stated: on a fatal top-level error, such as a scan root that does
\* not exist, main writes the error to stderr, exits with a non-zero code and
\* prints nothing to stdout; exit code 0 only on success, which includes an
\* existing tree with no eligible file.
C5_FatalErrorIsReported ==
    pc = "main_done" =>
        /\ FatalError => (stderr # <<>> /\ exit_code # 0 /\ stdout = <<>>)
        /\ exit_code = 0 => ~FatalError
        /\ (fs.exists /\ SelectedEntries(~args.include_tests) = <<>>)
              => exit_code = 0

BothCalled == returned.excl # NotCalled /\ returned.incl # NotCalled

\* C6: with either value of exclude_tests, collect_python_files returns no
\* analysis of a file named __init__.py or of a file whose name ends in
\* _pb2.py.
C6_MarkerAndGeneratedExcluded ==
    \A r \in {returned.excl, returned.incl} :
        \A k \in 1..Len(r.analyses) :
            /\ ~PackageMarker(Last(r.analyses[k].path))
            /\ ~Generated(Last(r.analyses[k].path))

\* C6 happens: the tree holds test_x_pb2.py and pkg/__init__.py besides one
\* other file, and both calls have returned that file alone
C6_Witness ==
    /\ BothCalled
    /\ \E k \in 1..Len(Entries) : Entries[k].name = Name_test_x_pb2_py
    /\ \E k \in 1..Len(Entries) :
          PackageMarker(Entries[k].name) /\ ~Entries[k].skipped
    /\ Len(returned.incl.analyses) = 1
    /\ returned.excl.analyses = returned.incl.analyses

RECURSIVE WithoutTestFiles(_)
WithoutTestFiles(list) ==
    IF list = <<>> THEN <<>>
    ELSE IF TestNamed(Last(Head(list).path)) THEN WithoutTestFiles(Tail(list))
    ELSE <<Head(list)>> \o WithoutTestFiles(Tail(list))

\* C7: an otherwise eligible file whose name starts with test_ or ends with
\* _test.py is analyzed exactly when exclude_tests is False, and the flag
\* changes nothing else: what is returned with exclude_tests = True is what
\* is returned with exclude_tests = False without the test-named files.
C7_FlagOnlyDropsTestFiles ==
    /\ \A k \in 1..Len(Entries) :
          (Eligible(Entries[k]) /\ TestNamed(Entries[k].name)) =>
             /\ returned.incl # NotCalled =>
                   \E j \in 1..Len(returned.incl.analyses) :
                       returned.incl.analyses[j].path = Entries[k].path
             /\ \A j \in 1..Len(returned.excl.analyses) :
                   returned.excl.analyses[j].path # Entries[k].path
    /\ BothCalled =>
          returned.excl.analyses = WithoutTestFiles(returned.incl.analyses)

\* C7 happens: x_test.py and test_x.py are returned with the flag off and
\* dropped with it on, next to a file that both calls return
C7_Witness ==
    /\ BothCalled
    /\ Len(returned.incl.analyses) = 3
    /\ Len(returned.excl.analyses) = 1
    /\ \E j \in 1..3 : returned.incl.analyses[j].path = <<Name_x_test_py>>
    /\ \E j \in 1..3 : Last(returned.incl.analyses[j].path) = Name_test_x_py

\* what collect_python_files returned to main, in discovery order
Discovered == collect_python_files(fs, ~args.include_tests).analyses

DiscoveredAt(path) ==
    CHOOSE i \in 1..Len(Discovered) : Discovered[i].path = path

RECURSIVE FileLines(_)
FileLines(out) ==
    IF out = <<>> THEN <<>>
    ELSE IF Head(out).line = "file" THEN <<Head(out)>> \o FileLines(Tail(out))
    ELSE FileLines(Tail(out))

\* file p comes before file q in the order of the Reporter: more lines, or
\* as many lines and discovered earlier
Before(p, q) ==
    \/ p.lines > q.lines
    \/ p.lines = q.lines /\ DiscoveredAt(p.path) < DiscoveredAt(q.path)

\* C8: main prints the first min(N, number of analyses) files of the
\* collected list ordered by lines descending, files of equal lines in the
\* order in which they were discovered.
C8_ReporterPrintsTopN ==
    (pc = "main_done" /\ exit_code = 0 /\ Discovered # <<>>) =>
        LET printed == FileLines(stdout)
        IN  /\ Len(printed) = Max(0, Min(args.n, Len(Discovered)))
            /\ \A k \in 1..Len(printed) :
                  \E i \in 1..Len(Discovered) :
                      /\ Discovered[i].path = printed[k].path
                      /\ Discovered[i].lines = printed[k].lines
            /\ \A k \in 1..Len(printed) : \A l \in 1..Len(printed) :
                  k < l => Before(printed[k], printed[l])
            /\ \A k \in 1..Len(printed) : \A i \in 1..Len(Discovered) :
                  (\A l \in 1..Len(printed) : printed[l].path # Discovered[i].path)
                     => Before(printed[k], Discovered[i])

\* C8 happens: three files of equal lines were discovered, N is 2, and the
\* two discovered first are printed in that order
C8_Witness ==
    /\ pc = "main_done"
    /\ exit_code = 0
    /\ args.n = 2
    /\ Len(Discovered) = 3
    /\ \A i \in 1..3 : Discovered[i].lines = Discovered[1].lines
    /\ PathsOf(FileLines(stdout)) = <<Discovered[1].path, Discovered[2].path>>

(***************************************************************************)
(* The claims about class_stack and the notes.                             *)
(***************************************************************************)
\* the class declarations among the nodes S
ClassesAmong(S) == {j \in S \ {0} : TheTree[j].kind = "ClassDef"}

\* the names of the nodes S in source order; on a chain of ancestors that
\* is outermost first
RECURSIVE NamesInOrder(_)
NamesInOrder(S) ==
    IF S = {} THEN <<>>
    ELSE LET first == CHOOSE j \in S : \A k \in S : j <= k
         IN  <<TheTree[first].name>> \o NamesInOrder(S \ {first})

\* the classes that enclose node n, and those that enclose it or are it
EnclosingClasses(n) == ClassesAmong(Ancestors(TheTree, n))
ClassesAround(n) == ClassesAmong({n} \cup Ancestors(TheTree, n))

\* C11: during the traversal class_stack is the names of the classes that
\* enclose the node being visited (the class itself included while it is
\* visited), outermost first, and it is empty when the traversal ends; each
\* FunctionInfo has is_method true exactly when a class encloses the
\* function, class_name the innermost enclosing class when is_method and
\* None otherwise; so a function nested in a function and in no class has
\* is_method false.
C11_ClassStackIsEnclosingClasses ==
    /\ visitor.class_stack = NamesInOrder(ClassesAround(CurrentFrame(visitor)))
    /\ VisitDone(TheTree, visitor) => visitor.class_stack = <<>>
    /\ \A k \in 1..Len(visitor.functions) :
          LET f == visitor.functions[k]
              enclosing == EnclosingClasses(visitor.spans[k].node)
          IN  /\ f.is_method <=> enclosing # {}
              /\ f.is_method => f.class_name = TheTree[SetMax(enclosing)].name
              /\ ~f.is_method => f.class_name = None
    /\ pc = "done" => result.functions = visitor.functions

\* C11 happens: class B is nested in class A and holds a function, which is
\* a method of B, and the traversal has come back to the top with an empty
\* class_stack
C11_Witness ==
    /\ pc = "done"
    /\ Len(TheTree) >= 3
    /\ result.classes = <<"A", "B">>
    /\ TheTree[2].parent = 1
    /\ TheTree[3].parent = 2
    /\ Len(result.functions) = 1
    /\ result.functions[1].is_method
    /\ result.functions[1].class_name = "B"
    /\ visitor.class_stack = <<>>

\* the notes of the record with the text given
NotesNamed(a, text) == {i \in 1..Len(a.notes) : a.notes[i].note = text}

\* the number of functions of the record with more than n lines
LongerThan(a, n) ==
    Cardinality({i \in 1..Len(a.functions) : a.functions[i].lines > n})

\* C12: the notes of an analyzed file hold at most one long-function
\* warning: "Very long functions" with the number of functions of more than
\* 100 lines when there is one; otherwise "Long functions" with the number
\* of functions of more than 50 lines when there is one; otherwise neither.
\* The two are never both there.
C12_OneLongFunctionWarning ==
    pc = "done" =>
        LET very == NotesNamed(result, "Very long functions")
            long == NotesNamed(result, "Long functions")
        IN  /\ Cardinality(very) + Cardinality(long) <= 1
            /\ LongerThan(result, 100) > 0 =>
                  /\ Cardinality(very) = 1
                  /\ \A i \in very : result.notes[i].count = LongerThan(result, 100)
            /\ (LongerThan(result, 100) = 0 /\ LongerThan(result, 50) > 0) =>
                  /\ Cardinality(long) = 1
                  /\ \A i \in long : result.notes[i].count = LongerThan(result, 50)
            /\ LongerThan(result, 50) = 0 => (very = {} /\ long = {})

\* C12 happens: a file with a function of more than 100 lines and a function
\* of 51 lines has the note of the very long function alone, with count 1
C12_Witness ==
    /\ pc = "done"
    /\ LongerThan(result, 100) = 1
    /\ LongerThan(result, 50) = 2
    /\ \E i \in 1..Len(result.functions) : result.functions[i].lines = 51
    /\ result.notes = <<[note |-> "Very long functions", count |-> 1]>>

(***************************************************************************)
(* The claims about the order of the report.                               *)
(***************************************************************************)
\* the lists with the elements of s in another order
Reorderings(s) ==
    {[i \in 1..Len(s) |-> s[q[i]]] : q \in DistinctSeqs(1..Len(s), Len(s))}

\* the place of the file in the list d
PlaceIn(d, path) == CHOOSE i \in 1..Len(d) : d[i].path = path

\* the files of equal line count are in p in the order they have in d
KeepsTies(p, d) ==
    \A i \in 1..Len(p) : \A j \in 1..Len(p) :
        (i < j /\ p[i].lines = p[j].lines)
           => PlaceIn(d, p[i].path) < PlaceIn(d, p[j].path)

Reported == pc = "main_done" /\ exit_code = 0 /\ Discovered # <<>>

\* C13 as stated: what main prints does not depend on the order of the
\* collected list: for every permutation of it, files of equal line count
\* included, sorting and truncating to the first N prints the same files in
\* the same order.
C13_OutputIgnoresOrder ==
    Reported =>
        LET d == Discovered
        IN  \A p \in Reorderings(d) : report(p, args.n, args.topfuncs) = stdout

\* C13 amended: what main prints is the same for every permutation of the
\* collected list that keeps the files of equal line count in the same
\* relative order (so for every permutation when the line counts differ);
\* files of equal line count are printed in the order they have in the list.
C13_OutputIgnoresOrderButTies ==
    Reported =>
        LET d == Discovered
        IN  \A p \in Reorderings(d) :
                KeepsTies(p, d) => report(p, args.n, args.topfuncs) = stdout

\* C13 happens: three files, the second one longer than the first and the
\* third, which are as long as each other; with N = 2 the second and the
\* first are printed, and the list has other orders that keep the tie
C13_Witness ==
    /\ Reported
    /\ args.n = 2
    /\ Len(Discovered) = 3
    /\ Discovered[2].lines > Discovered[1].lines
    /\ Discovered[3].lines = Discovered[1].lines
    /\ PathsOf(FileLines(stdout)) = <<Discovered[2].path, Discovered[1].path>>
    /\ \E p \in Reorderings(Discovered) :
          p # Discovered /\ KeepsTies(p, Discovered)

(***************************************************************************)
(* The claims about the functions print_analysis lists.                    *)
(***************************************************************************)
\* the function rows and the "funcs (top <limit> by lines)" headers printed
RECURSIVE LinesOfKind(_, _)
LinesOfKind(out, kind) ==
    IF out = <<>> THEN <<>>
    ELSE IF Head(out).line = kind THEN <<Head(out)>> \o LinesOfKind(Tail(out), kind)
    ELSE LinesOfKind(Tail(out), kind)

FuncRows == LinesOfKind(stdout, "func")
FuncHeaders == LinesOfKind(stdout, "funcs")

\* the i-th declared function comes before the j-th in the listing order:
\* more lines, or as many lines and declared earlier
ListedBefore(i, j) ==
    \/ result.functions[i].lines > result.functions[j].lines
    \/ result.functions[i].lines = result.functions[j].lines /\ i < j

\* the rows are the first ones of the declared functions in listing order
RowsLeadListingOrder ==
    \E q \in DistinctSeqs(1..Len(result.functions), Len(FuncRows)) :
        /\ \A k \in 1..Len(FuncRows) : FuncRows[k].func = result.functions[q[k]]
        /\ \A k \in 1..Len(FuncRows) : \A l \in 1..Len(FuncRows) :
              k < l => ListedBefore(q[k], q[l])
        /\ \A k \in 1..Len(FuncRows) : \A i \in 1..Len(result.functions) :
              (\A l \in 1..Len(FuncRows) : q[l] # i) => ListedBefore(q[k], i)

\* C14 as stated: print_analysis lists the functions of the file by lines
\* descending, functions of equal lines in the order of their declaration,
\* and it lists the first K of that order, or all when the file has fewer
\* than K.
C14_TopFunctionsListed ==
    pc = "print_done" =>
        /\ RowsLeadListingOrder
        /\ Len(FuncRows) = Min(Max(args.topfuncs, 0), Len(result.functions))

\* C15 as stated: for every integer K, zero and negative ones included, the
\* number of function rows print_analysis prints is the limit it announces
\* in the header "funcs (top <limit> by lines)" and is at most max(K, 0).
C15_RowsMatchAnnouncedLimit ==
    pc = "print_done" =>
        /\ \A h \in 1..Len(FuncHeaders) : FuncHeaders[h].limit = Len(FuncRows)
        /\ Len(FuncRows) <= Max(args.topfuncs, 0)

====
